---- MODULE Spec2Model ----
(***************************************************************************)
(* A model of crustacean-wordle: the outcome computer                      *)
(* (Word::outcome_of_guess), the accumulated knowledge (Pattern::ingest),  *)
(* pattern matching (Word::matches) and candidate filtering                *)
(* (CanPatternFilter::filter_pattern).                                     *)
(*                                                                         *)
(* Letters are one-character strings, a Word is a sequence of letters, a   *)
(* HashSet is a set, a HashMap is a function on its key set and a Vec is a *)
(* sequence.                                                               *)
(***************************************************************************)
EXTENDS Integers, Sequences, FiniteSets, TLC

VARIABLES
    word,       \* the Word receiver of a call (Game.word, the secret)
    guess,      \* the Guess handed to the latest call (letters and tiles)
    knowledge,  \* the Pattern under test (EntropyStrategy.knowledge)
    prior,      \* the Pattern `knowledge` was ingested from (never mutated)
    guesslist,  \* a candidate collection: [words, scores]
    extant,     \* the latest filtered sub-collection: [words, scores]
    rounds,     \* number of ingest calls made so far
    ret,        \* what the latest call returned
    guesses,    \* Game.guesses: the Guesses made, oldest first
    pairs       \* chosen_guess: the workers' results, in completion order

vars ==
    <<word, guess, knowledge, prior, guesslist, extant, rounds, ret, guesses,
      pairs>>

-----------------------------------------------------------------------------
(* Bounds of the model.                                                    *)

\* Longest word scored by the outcome computer, apart from the examples.
MaxWordLen == 4

\* The letters the bounded words are drawn from.
Alphabet == {"a", "b", "c"}

\* Longest word matched against a Pattern.
MaxLen == 2

\* The letters of the bounded Patterns, ingested guesses and matched words,
\* in the order the word list holds them.
PatternLetterVec == <<"a", "b">>
PatternLetters == {PatternLetterVec[i] : i \in 1..Len(PatternLetterVec)}

\* Most guesses registered with one strategy.
MaxIngests == 2

\* Most words in a filtered collection.
MaxWords == 2

\* All words of length n over a set of letters.
WordsOver(letters, n) == [1..n -> letters]

\* Op applied to the value of e, e being evaluated once.
With(e, Op(_)) == CHOOSE r \in {Op(x) : x \in {e}} : TRUE

-----------------------------------------------------------------------------
(* game.rs: tiles and guesses.                                             *)

Gray == "Gray"
Yellow == "Yellow"
Green == "Green"
TileOutcome == {Gray, Yellow, Green}

\* struct Guess { guess: Vec<char>, outcome: Vec<TileOutcome> }
Guess(g, o) == [guess |-> g, outcome |-> o]

\* Guess::default(): both vectors empty.
NoGuess == Guess(<<>>, <<>>)

-----------------------------------------------------------------------------
(* words.rs: Word.                                                         *)

\* Word::has_letter: self.word.contains(ch)
has_letter(self, ch) == \E i \in 1..Len(self) : self[i] = ch

\* Word::num_occurrences: self.word.iter().filter(|c| c == &ch).count()
num_occurrences(self, ch) == Cardinality({i \in 1..Len(self) : self[i] = ch})

\* self.word.iter().collect::<Counter<_, i32>>(): one key per letter of self.
Counter(self) ==
    [ch \in {self[i] : i \in 1..Len(self)} |-> num_occurrences(self, ch)]

\* Indexing a Counter: a missing key reads as zero.
CounterGet(counts, ch) == IF ch \in DOMAIN counts THEN counts[ch] ELSE 0

\* counts[&ch] -= 1 (the key is created at zero when missing).
CounterDec(counts, ch) ==
    [k \in DOMAIN counts \cup {ch} |-> IF k = ch THEN CounterGet(counts, ch) - 1
                                       ELSE counts[k]]

\* A first loop that marks exact matches Green but forgets to use up the
\* letter's copy.
RECURSIVE GreenPass_keeps_copies(_, _, _, _)
GreenPass_keeps_copies(self, g, idx, st) ==
    IF idx > Len(g) THEN st
    ELSE IF self[idx] = g[idx]
         THEN GreenPass_keeps_copies(self, g, idx + 1,
                        [outcomes |-> [st.outcomes EXCEPT ![idx] = Green],
                         counts   |-> st.counts])
         ELSE GreenPass_keeps_copies(self, g, idx + 1, st)

\* First loop of outcome_of_guess, from position idx on: exact matches turn
\* Green and use up one copy of the letter.
RECURSIVE GreenPass(_, _, _, _)
GreenPass(self, g, idx, st) ==
    IF idx > Len(g) THEN st
    ELSE IF self[idx] = g[idx]
         THEN With([outcomes |-> [st.outcomes EXCEPT ![idx] = Green],
                    counts   |-> CounterDec(st.counts, self[idx])],
                   LAMBDA next : GreenPass(self, g, idx + 1, next))
         ELSE GreenPass(self, g, idx + 1, st)

\* Second loop of outcome_of_guess, from position idx on: a still-Gray tile
\* whose letter has copies left turns Yellow and uses one up.
RECURSIVE YellowPass(_, _, _, _)
YellowPass(self, g, idx, st) ==
    IF idx > Len(g) THEN st
    ELSE IF /\ st.outcomes[idx] = Gray
            /\ has_letter(self, g[idx])
            /\ CounterGet(st.counts, g[idx]) > 0
         THEN With([outcomes |-> [st.outcomes EXCEPT ![idx] = Yellow],
                    counts   |-> CounterDec(st.counts, g[idx])],
                   LAMBDA next : YellowPass(self, g, idx + 1, next))
         ELSE YellowPass(self, g, idx + 1, st)

\* A scoring that skips the copy bookkeeping: every letter of the secret
\* that is not in place turns Yellow.
outcome_of_guess_naive(self, g) ==
    [i \in 1..Len(g) |-> IF self[i] = g[i] THEN Green
                         ELSE IF has_letter(self, g[i]) THEN Yellow ELSE Gray]

\* Word::outcome_of_guess(&self, guess), for a guess as long as self.
outcome_of_guess(self, g) ==
    LET start == [outcomes |-> [i \in 1..Len(g) |-> Gray],
                  counts   |-> Counter(self)]
    IN  With(GreenPass(self, g, 1, start),
             LAMBDA greens : YellowPass(self, g, 1, greens).outcomes)

-----------------------------------------------------------------------------
(* words.rs: PlaceConstraint, Pattern, Word::matches.                      *)

\* PlaceConstraint::IsChar(char)
IsChar(c) == [tag |-> "IsChar", ch |-> c, chars |-> <<>>]

\* PlaceConstraint::IsNotChars(Vec<char>)
IsNotChars(v) == [tag |-> "IsNotChars", ch |-> "", chars |-> v]

\* struct Pattern { disallowed: HashSet<char>, must_contain: HashMap<char,
\* usize>, constraints: HashMap<usize, PlaceConstraint> }; the keys of
\* constraints are the 0-based positions the code uses.
Pattern(d, m, c) == [disallowed |-> d, must_contain |-> m, constraints |-> c]

\* Vec::contains
Contains(v, x) == \E i \in 1..Len(v) : v[i] = x

\* Word::obeys_constraint, for an index inside the word: value is
\* self.word[idx].
obeys_constraint(self, idx, cons) ==
    LET value == self[idx + 1]
    IN  IF cons.tag = "IsChar" THEN cons.ch = value
        ELSE ~Contains(cons.chars, value)

\* A matches whose minimum-count test is off by one (<= for <).
matches_off_by_one(self, pattern) ==
    IF \E ch \in pattern.disallowed : has_letter(self, ch) THEN FALSE
    ELSE IF \E ch \in DOMAIN pattern.must_contain :
                num_occurrences(self, ch) <= pattern.must_contain[ch]
         THEN FALSE
         ELSE \A idx \in DOMAIN pattern.constraints :
                obeys_constraint(self, idx, pattern.constraints[idx])

\* Word::matches: three loops, each returning false at the first failure.
matches(self, pattern) ==
    IF \E ch \in pattern.disallowed : has_letter(self, ch) THEN FALSE
    ELSE IF \E ch \in DOMAIN pattern.must_contain :
                num_occurrences(self, ch) < pattern.must_contain[ch]
         THEN FALSE
         ELSE \A idx \in DOMAIN pattern.constraints :
                obeys_constraint(self, idx, pattern.constraints[idx])

-----------------------------------------------------------------------------
(* words.rs: Pattern::ingest.                                              *)

\* HashMap::insert
MapPut(m, k, v) == [x \in DOMAIN m \cup {k} |-> IF x = k THEN v ELSE m[x]]

\* *count_map.entry(ch).or_insert(0) += 1
CountUp(count_map, ch) ==
    MapPut(count_map, ch,
           IF ch \in DOMAIN count_map THEN count_map[ch] + 1 ELSE 1)

\* A Gray | Yellow arm that overwrites whatever constraint the position
\* holds, a forced letter included.
Forbid_overwrites(constraints, idx, ch) ==
    MapPut(constraints, idx, IsNotChars(<<ch>>))

\* The Gray | Yellow arm's update of the constraint at idx, taken when ch is
\* not in self.disallowed: a forced letter stays, a forbidden vector gets ch
\* pushed unless it holds it, a free position gets the vector [ch].
Forbid(constraints, idx, ch) ==
    IF idx \in DOMAIN constraints
    THEN IF constraints[idx].tag = "IsChar" THEN constraints
         ELSE IF Contains(constraints[idx].chars, ch) THEN constraints
              ELSE MapPut(constraints, idx,
                          IsNotChars(Append(constraints[idx].chars, ch)))
    ELSE MapPut(constraints, idx, IsNotChars(<<ch>>))

\* A loop turn that counts a letter only on a Green tile, not on a Yellow one.
IngestTile_counts_green_only(self, g, idx, st) ==
    LET ch == g.guess[idx + 1]
        outcome == g.outcome[idx + 1]
    IN  IF outcome = Green
        THEN [constraints |-> MapPut(st.constraints, idx, IsChar(ch)),
              count_map   |-> CountUp(st.count_map, ch),
              to_disallow |-> st.to_disallow]
        ELSE [constraints |-> IF ch \notin self.disallowed
                              THEN Forbid(st.constraints, idx, ch)
                              ELSE st.constraints,
              count_map   |-> st.count_map,
              to_disallow |-> IF outcome = Gray
                              THEN Append(st.to_disallow, ch)
                              ELSE st.to_disallow]

\* One turn of ingest's loop over guess.paired_iter().enumerate(), for the
\* 0-based position idx; st holds constraints, count_map and to_disallow.
IngestTile(self, g, idx, st) ==
    LET ch == g.guess[idx + 1]
        outcome == g.outcome[idx + 1]
    IN  IF outcome = Green
        THEN [constraints |-> MapPut(st.constraints, idx, IsChar(ch)),
              count_map   |-> CountUp(st.count_map, ch),
              to_disallow |-> st.to_disallow]
        ELSE [constraints |-> IF ch \notin self.disallowed
                              THEN Forbid(st.constraints, idx, ch)
                              ELSE st.constraints,
              count_map   |-> IF outcome = Gray THEN st.count_map
                              ELSE CountUp(st.count_map, ch),
              to_disallow |-> IF outcome = Gray
                              THEN Append(st.to_disallow, ch)
                              ELSE st.to_disallow]

\* The loop from position idx on; a zip stops at the shorter vector.
RECURSIVE IngestLoop(_, _, _, _)
IngestLoop(self, g, idx, st) ==
    IF idx >= Len(g.guess) \/ idx >= Len(g.outcome) THEN st
    ELSE With(IngestTile(self, g, idx, st),
              LAMBDA next : IngestLoop(self, g, idx + 1, next))

\* A must_contain update that overwrites the minimum with the new count.
RaiseMinimums_overwrites(must_contain, count_map) ==
    [ch \in DOMAIN must_contain \cup DOMAIN count_map |->
        IF ch \in DOMAIN count_map THEN count_map[ch] ELSE must_contain[ch]]

\* A must_contain update that adds the new count to the minimum.
RaiseMinimums_adds(must_contain, count_map) ==
    [ch \in DOMAIN must_contain \cup DOMAIN count_map |->
        IF ch \notin DOMAIN count_map THEN must_contain[ch]
        ELSE IF ch \notin DOMAIN must_contain THEN count_map[ch]
        ELSE must_contain[ch] + count_map[ch]]

\* for (ch, count) in count_map: entry = or_insert(count); entry = max.
RaiseMinimums(must_contain, count_map) ==
    [ch \in DOMAIN must_contain \cup DOMAIN count_map |->
        IF ch \notin DOMAIN count_map THEN must_contain[ch]
        ELSE IF ch \notin DOMAIN must_contain THEN count_map[ch]
        ELSE IF must_contain[ch] >= count_map[ch] THEN must_contain[ch]
        ELSE count_map[ch]]

\* A disallow step that bans every letter with a Gray tile.
Disallow_every_gray(disallowed, to_disallow, count_map) ==
    disallowed \cup {to_disallow[i] : i \in 1..Len(to_disallow)}

\* for ch in to_disallow: insert unless counted in this guess (or present).
Disallow(disallowed, to_disallow, count_map) ==
    disallowed \cup {to_disallow[i] : i \in
                        {j \in 1..Len(to_disallow) :
                            to_disallow[j] \notin DOMAIN count_map}}

\* Pattern::ingest(&self, guess) -> Pattern
ingest(self, g) ==
    With(IngestLoop(self, g, 0,
                    [constraints |-> self.constraints,
                     count_map   |-> <<>>,
                     to_disallow |-> <<>>]),
         LAMBDA st :
            Pattern(Disallow(self.disallowed, st.to_disallow, st.count_map),
                    RaiseMinimums(self.must_contain, st.count_map),
                    st.constraints))

-----------------------------------------------------------------------------
(* words.rs: candidate collections and CanPatternFilter::filter_pattern.   *)

\* A Wordlist or SubWordlist: words and scores, index-aligned.
Collection(ws, ss) == [words |-> ws, scores |-> ss]

\* The 0-based indices, from idx on, of the words that match the pattern.
RECURSIVE MatchingIndices(_, _, _)
MatchingIndices(words, pattern, idx) ==
    IF idx >= Len(words) THEN <<>>
    ELSE (IF matches(words[idx + 1], pattern) THEN <<idx>> ELSE <<>>)
            \o MatchingIndices(words, pattern, idx + 1)

\* indices.iter().filter_map(|idx| v.get(*idx)).cloned().collect()
RECURSIVE GetEach(_, _)
GetEach(v, indices) ==
    IF indices = <<>> THEN <<>>
    ELSE (IF Head(indices) < Len(v) THEN <<v[Head(indices) + 1]>> ELSE <<>>)
            \o GetEach(v, Tail(indices))

\* A filter that keeps the scores of the first so-many entries instead of
\* the scores at the matching indices.
filter_pattern_leading_scores(self, pattern) ==
    LET indices == MatchingIndices(self.words, pattern, 0)
    IN  Collection(GetEach(self.words, indices),
                   SubSeq(self.scores, 1, Len(indices)))

\* CanPatternFilter::filter_pattern(&self, pattern) -> SubWordlist
filter_pattern(self, pattern) ==
    With(MatchingIndices(self.words, pattern, 0),
         LAMBDA indices : Collection(GetEach(self.words, indices),
                                     GetEach(self.scores, indices)))

-----------------------------------------------------------------------------
(* f64 arithmetic of the entropy computations. A finite value is held in   *)
(* fixed point, in millionths; the infinities and NaN are kept apart and   *)
(* follow IEEE 754.                                                        *)

\* (n as f64).log2() for n = 1, 2, ..., in millionths.
Log2Table ==
    <<0, 1000000, 1584963, 2000000, 2321928, 2584963, 2807355, 3000000>>

\* 1.0_f64 in fixed point.
One == Log2Table[2]

Finite(v) == [kind |-> "finite", v |-> v]
NegInfinity == [kind |-> "-inf", v |-> 0]
PosInfinity == [kind |-> "+inf", v |-> 0]
NaN == [kind |-> "nan", v |-> 0]

\* f64::log2 of a length: log2(0) is negative infinity.
log2(n) == IF n = 0 THEN NegInfinity ELSE Finite(Log2Table[n])

\* -x
FNeg(x) ==
    CASE x.kind = "finite" -> Finite(0 - x.v)
      [] x.kind = "-inf" -> PosInfinity
      [] x.kind = "+inf" -> NegInfinity
      [] OTHER -> NaN

\* a + b
FAdd(a, b) ==
    CASE a.kind = "nan" \/ b.kind = "nan" -> NaN
      [] a.kind = "finite" /\ b.kind = "finite" -> Finite(a.v + b.v)
      [] a.kind = "finite" -> b
      [] b.kind = "finite" -> a
      [] a.kind = b.kind -> a
      [] OTHER -> NaN

\* a - b
FSub(a, b) == FAdd(a, FNeg(b))

\* (count as f64) * x, for a count of at least one
FMul(count, x) == IF x.kind = "finite" THEN Finite(count * x.v) ELSE x

\* a.partial_cmp(b): None when either is NaN.
partial_cmp(a, b) ==
    LET rank(x) == CASE x.kind = "-inf" -> 0
                     [] x.kind = "finite" -> 1
                     [] OTHER -> 2
    IN  CASE a.kind = "nan" \/ b.kind = "nan" -> "None"
          [] rank(a) < rank(b) -> "Less"
          [] rank(a) > rank(b) -> "Greater"
          [] a.kind = "finite" /\ a.v < b.v -> "Less"
          [] a.kind = "finite" /\ a.v > b.v -> "Greater"
          [] OTHER -> "Equal"

-----------------------------------------------------------------------------
(* strategy.rs: EntropyStrategy.                                           *)

\* const ENTROPY_STRATEGY_WIN_VALUE: f64 = -1000.0
ENTROPY_STRATEGY_WIN_VALUE == Finite((0 - 1000) * One)

\* struct EntropyStrategy { knowledge, guesslist, extant } (the verbosity
\* only drives printing)
EntropyStrategy(k, gl, ex) == [knowledge |-> k, guesslist |-> gl, extant |-> ex]

\* EntropyStrategy::init(wordlist)
init(wordlist) == EntropyStrategy(Pattern({}, <<>>, <<>>), wordlist, wordlist)

\* HasWords::unweighted_entropy: (self.possible_words().len() as f64).log2()
unweighted_entropy(self) == log2(Len(self.words))

\* A register_guess that ingests the guess but leaves the extant words as
\* they were.
register_guess_keeps_extant(self, g) ==
    EntropyStrategy(ingest(self.knowledge, g), self.guesslist, self.extant)

\* EntropyStrategy::register_guess: ingest, then filter the extant words.
register_guess(self, g) ==
    With(ingest(self.knowledge, g),
         LAMBDA ingested :
            EntropyStrategy(ingested, self.guesslist,
                            filter_pattern(self.extant, ingested)))

\* The worker's first loop: how many extant words give each outcome.
possible_patterns(extant_words, g) ==
    LET outcome(i) == outcome_of_guess(extant_words[i], g)
    IN  [o \in {outcome(i) : i \in 1..Len(extant_words)} |->
            Cardinality({i \in 1..Len(extant_words) : outcome(i) = o})]

\* A resulting entropy without the special case of the win.
new_entropy_of_sublist(self, current_entropy, g, outcome) ==
    With(ingest(self.knowledge, Guess(g, outcome)),
         LAMBDA pattern :
            unweighted_entropy(filter_pattern(self.extant, pattern)))

\* The entropy after one outcome: the win value when the extant words have
\* entropy 0.0 and every tile is Green, else the entropy of the sublist.
new_entropy(self, current_entropy, g, outcome) ==
    IF /\ current_entropy = Finite(0)
       /\ \A i \in 1..Len(outcome) : outcome[i] = Green
    THEN ENTROPY_STRATEGY_WIN_VALUE
    ELSE With(ingest(self.knowledge, Guess(g, outcome)),
              LAMBDA pattern :
                unweighted_entropy(filter_pattern(self.extant, pattern)))

\* The worker's second loop over the entries left of possible_patterns, in
\* whatever order the HashMap yields them:
\* total_gain += (count as f64) * (current_entropy - new_entropy).
RECURSIVE GainLoop(_, _, _, _, _, _)
GainLoop(self, current_entropy, g, patterns, left, total_gain) ==
    IF left = {} THEN total_gain
    ELSE With(CHOOSE o \in left : TRUE,
              LAMBDA outcome :
                With(FAdd(total_gain,
                          FMul(patterns[outcome],
                               FSub(current_entropy,
                                    new_entropy(self, current_entropy, g,
                                                outcome)))),
                     LAMBDA gained :
                        GainLoop(self, current_entropy, g, patterns,
                                 left \ {outcome}, gained)))

\* The closure run for one allowed guess: (total_gain, guess.clone()).
worker(self, current_entropy, g) ==
    With(possible_patterns(self.extant.words, g),
         LAMBDA patterns :
            [score |-> GainLoop(self, current_entropy, g, patterns,
                                DOMAIN patterns, Finite(0)),
             guess |-> g])

\* Option<WordPtr>, and a call that panicked instead of returning.
None == [tag |-> "None", value |-> <<>>]
Some(w) == [tag |-> "Some", value |-> w]
Panicked == [tag |-> "panic", value |-> <<>>]

\* One insertion of the stable sort: x goes behind every pair that does not
\* compare after it, so behind the pairs of equal score too.
InsertPair(sorted, x) ==
    LET ahead == Cardinality({i \in 1..Len(sorted) :
                    partial_cmp(x.score, sorted[i].score) # "Greater"})
    IN  SubSeq(sorted, 1, ahead) \o <<x>>
            \o SubSeq(sorted, ahead + 1, Len(sorted))

\* A sort that lets a pair overtake the pairs of equal score.
RECURSIVE sort_by_unstable(_)
sort_by_unstable(v) ==
    IF v = <<>> THEN <<>>
    ELSE LET rest == sort_by_unstable(SubSeq(v, 1, Len(v) - 1))
             x == v[Len(v)]
             ahead == Cardinality({i \in 1..Len(rest) :
                        partial_cmp(x.score, rest[i].score) = "Less"})
         IN  SubSeq(rest, 1, ahead) \o <<x>>
                \o SubSeq(rest, ahead + 1, Len(rest))

\* guess_score_pairs.sort_by(|(s1, _), (s2, _)| s2.partial_cmp(s1).unwrap()):
\* stable, greatest score first.
RECURSIVE sort_by(_)
sort_by(v) ==
    IF v = <<>> THEN <<>>
    ELSE With(sort_by(SubSeq(v, 1, Len(v) - 1)),
              LAMBDA sorted : InsertPair(sorted, v[Len(v)]))

\* A first() that falls back on the default Word when there is no pair.
best_guess_or_default(guess_score_pairs) ==
    IF guess_score_pairs = <<>> THEN Some(<<>>)
    ELSE Some(guess_score_pairs[1].guess)

\* guess_score_pairs.first().map(|(_, guess)| guess).cloned()
best_guess(guess_score_pairs) ==
    IF guess_score_pairs = <<>> THEN None
    ELSE Some(guess_score_pairs[1].guess)

\* The end of chosen_guess, from the collected pairs on: the comparator
\* unwraps partial_cmp, which panics on a NaN score once two pairs are
\* compared.
SortAndPick(guess_score_pairs) ==
    With(guess_score_pairs \o <<>>,
         LAMBDA v :
            IF /\ Len(v) >= 2
               /\ \E i \in 1..Len(v) : v[i].score.kind = "nan"
            THEN Panicked
            ELSE With(sort_by(v), LAMBDA sorted : best_guess(sorted)))

\* EntropyStrategy::chosen_guess(&self) -> Option<WordPtr>, with the pairs
\* collected in the order of the allowed guesses.
chosen_guess(self) ==
    With(self.guesslist.words,
         LAMBDA all_guesses :
            With(unweighted_entropy(self.extant),
                 LAMBDA current_entropy :
                    SortAndPick([k \in 1..Len(all_guesses) |->
                        worker(self, current_entropy, all_guesses[k])])))

-----------------------------------------------------------------------------
(* game.rs: Game.                                                          *)

\* const ALLOWED_GUESSES_PER_GAME: usize = 6
ALLOWED_GUESSES_PER_GAME == 6

NotStarted == "NotStarted"
InProgress == "InProgress"
GuesserVictory == "GuesserVictory"
GuesserDefeat == "GuesserDefeat"
Invalid == "Invalid"
GameState == {NotStarted, InProgress, GuesserVictory, GuesserDefeat, Invalid}

\* A current_state that ends the game only past the allowed guesses.
current_state_past_limit(w, gs) ==
    IF w = <<>> THEN NotStarted
    ELSE IF gs = <<>> THEN InProgress
    ELSE LET last_guess == gs[Len(gs)]
         IN  IF \A i \in 1..Len(last_guess.outcome) :
                    last_guess.outcome[i] = Green
             THEN GuesserVictory
             ELSE IF Len(gs) > ALLOWED_GUESSES_PER_GAME THEN GuesserDefeat
             ELSE InProgress

\* A current_state that tests the round limit before the tiles.
current_state_limit_first(w, gs) ==
    IF w = <<>> THEN NotStarted
    ELSE IF gs = <<>> THEN InProgress
    ELSE LET last_guess == gs[Len(gs)]
         IN  IF Len(gs) >= ALLOWED_GUESSES_PER_GAME THEN GuesserDefeat
             ELSE IF \A i \in 1..Len(last_guess.outcome) :
                        last_guess.outcome[i] = Green
                  THEN GuesserVictory
                  ELSE InProgress

\* Game::current_state, for the secret w and the guesses gs.
current_state(w, gs) ==
    IF w = <<>> THEN NotStarted
    ELSE IF gs = <<>> THEN InProgress
    ELSE IF Len(gs) >= 1
         THEN LET last_guess == gs[Len(gs)]
              IN  IF \A i \in 1..Len(last_guess.outcome) :
                        last_guess.outcome[i] = Green
                  THEN GuesserVictory
                  ELSE IF Len(gs) >= ALLOWED_GUESSES_PER_GAME
                       THEN GuesserDefeat
                       ELSE InProgress
         ELSE Invalid

\* Game::is_over
is_over(w, gs) == current_state(w, gs) \in {GuesserDefeat, GuesserVictory}

-----------------------------------------------------------------------------
(* The words of the examples and tests.                                    *)

Crepe == <<"c", "r", "e", "p", "e">>
Eerie == <<"e", "e", "r", "i", "e">>
\* tests::test_outcome_of_guess
TestWord == <<"a", "b", "c", "c", "d", "e", "e", "f", "x", "r">>
TestGuess == <<"a", "z", "d", "c", "c", "c", "f", "e", "r", "r">>
\* tests::test_ingest, first case
Tares == Guess(<<"t", "a", "r", "e", "s">>, <<Yellow, Gray, Gray, Gray, Gray>>)
\* tests::test_ingest, second case: the Pattern and the Guess
ForcedPattern ==
    Pattern({"a", "b", "c"},
            [ch \in {"e"} |-> 1],
            [idx \in 0..2 |-> IF idx = 1 THEN IsChar("e") ELSE IsChar("d")])
Dedefe == Guess(<<"d", "e", "d", "e", "f", "e">>,
                <<Green, Green, Green, Yellow, Yellow, Gray>>)

\* The words the outcome computer is run on.
ScoredWords ==
    UNION {WordsOver(Alphabet, n) : n \in 1..MaxWordLen}
        \cup {Crepe, Eerie, TestWord, TestGuess}

\* tests::test_matches: the three Patterns, and each asserted word with the
\* result the test expects.
MatchPattern1 ==
    Pattern({"a", "b", "c"},
            [ch \in {"d", "e"} |-> IF ch = "d" THEN 2 ELSE 1],
            [idx \in 0..2 |-> IF idx = 1 THEN IsNotChars(<<"d", "e">>)
                               ELSE IsChar("d")])
MatchPattern2 ==
    Pattern({"y", "s", "h", "a", "t", "z"},
            <<>>,
            [idx \in {0, 1, 3} |-> IF idx = 0 THEN IsNotChars(<<"w">>)
                                    ELSE IsChar("e")])
MatchPattern3 ==
    Pattern({"t", "b", "i", "n", "g", "s", "z", "e", "l", "u", "y", "r"},
            [ch \in {"a", "o", "h", "c"} |-> 1],
            [idx \in 0..4 |->
                CASE idx = 0 -> IsNotChars(<<"s", "l", "b", "a">>)
                  [] idx = 1 -> IsChar("o")
                  [] idx = 2 -> IsNotChars(<<"a", "n", "t", "y">>)
                  [] idx = 3 -> IsNotChars(<<"r", "a", "o", "g">>)
                  [] idx = 4 -> IsNotChars(<<"e", "c", "h", "y">>)])
MatchCases ==
    {[w |-> <<"d", "e", "d">>, K |-> MatchPattern1, expected |-> FALSE],
     [w |-> <<"d", "e", "d", "e">>, K |-> MatchPattern1, expected |-> FALSE],
     [w |-> <<"d", "d", "d", "e">>, K |-> MatchPattern1, expected |-> FALSE],
     [w |-> <<"d", "c", "d", "e">>, K |-> MatchPattern1, expected |-> FALSE],
     [w |-> <<"d", "f", "d", "e">>, K |-> MatchPattern1, expected |-> TRUE],
     [w |-> <<"r", "e", "w", "e", "d">>, K |-> MatchPattern2, expected |-> TRUE],
     [w |-> <<"b", "e", "w", "e", "d", "e", "d">>, K |-> MatchPattern2, expected |-> TRUE],
     [w |-> <<"z", "e", "w", "e", "d", "e", "d">>, K |-> MatchPattern2, expected |-> FALSE],
     [w |-> <<"m", "o", "c", "h", "a">>, K |-> MatchPattern3, expected |-> TRUE],
     [w |-> <<"a", "z", "y", "g", "y">>, K |-> MatchPattern3, expected |-> FALSE],
     [w |-> <<"b", "o", "c", "h", "a">>, K |-> MatchPattern3, expected |-> FALSE]}

-----------------------------------------------------------------------------
(* Defaults.                                                               *)

\* Pattern::default()
DefaultPattern == Pattern({}, <<>>, <<>>)

\* Wordlist::default() / SubWordlist::default()
EmptyList == Collection(<<>>, <<>>)

NoRet == [tag |-> "none"]

-----------------------------------------------------------------------------
(* Scoring one guess against one secret.                                   *)

InitOutcome ==
    /\ word \in ScoredWords
    /\ guess = NoGuess
    /\ knowledge = DefaultPattern
    /\ prior = DefaultPattern
    /\ guesslist = EmptyList
    /\ extant = EmptyList
    /\ rounds = 0
    /\ ret = NoRet
    /\ guesses = <<>>
    /\ pairs = <<>>

\* let outcome = self.word.outcome_of_guess(guess); Guess { guess, outcome }
OutcomeOfGuess ==
    /\ ret = NoRet
    /\ \E g \in ScoredWords :
        /\ Len(g) = Len(word)
        /\ guess' = Guess(g, outcome_of_guess(word, g))
    /\ ret' = [tag |-> "outcome"]
    /\ UNCHANGED <<word, knowledge, prior, guesslist, extant, rounds, guesses, pairs>>

NextOutcome == OutcomeOfGuess

SpecOutcome == InitOutcome /\ [][NextOutcome]_vars

\* The secret, the guessed letters and the tiles of the scored guess.
Scored == ret.tag = "outcome"

\* Positions of the guess g holding letter c whose tile in o is one of ts.
TilesOf(g, o, c, ts) == {i \in 1..Len(g) : g[i] = c /\ o[i] \in ts}

\* C1: the outcome has exactly as many Green tiles as there are positions
\* where secret and guess agree, and for every letter the Green plus Yellow
\* tiles placed on it never exceed its occurrences in the secret.
C1_GreenCountAndLetterCap ==
    Scored =>
        LET a == word
            b == guess.guess
            o == guess.outcome
        IN  /\ Cardinality({i \in 1..Len(o) : o[i] = Green})
                = Cardinality({i \in 1..Len(a) : a[i] = b[i]})
            /\ \A i \in 1..Len(b) :
                   Cardinality(TilesOf(b, o, b[i], {Green, Yellow}))
                       <= num_occurrences(a, b[i])

\* A guess that repeats a letter more often than the secret holds it, with
\* both a Green and a Yellow tile handed out.
C1_Witness ==
    /\ Scored
    /\ \E i \in 1..Len(guess.guess) :
          /\ num_occurrences(guess.guess, guess.guess[i])
                > num_occurrences(word, guess.guess[i])
          /\ num_occurrences(word, guess.guess[i]) > 0
    /\ \E i, j \in 1..Len(guess.outcome) :
          guess.outcome[i] = Green /\ guess.outcome[j] = Yellow

\* C2 as stated: "eerie" against "crepe" scores Yellow, Gray, Green, Gray,
\* Green.
C2_AsStated ==
    (Scored /\ word = Crepe /\ guess.guess = Eerie)
        => guess.outcome = <<Yellow, Gray, Green, Gray, Green>>

\* C2 amended: "eerie" against "crepe" scores Yellow, Gray, Yellow, Gray,
\* Green (the 'r' at the third position is in "crepe", elsewhere).
C2_EerieAgainstCrepe ==
    (Scored /\ word = Crepe /\ guess.guess = Eerie)
        => guess.outcome = <<Yellow, Gray, Yellow, Gray, Green>>

C2_Witness == Scored /\ word = Crepe /\ guess.guess = Eerie

\* C3: a tile is Green iff guess and secret agree there; a tile that is not
\* Green is Yellow iff fewer earlier non-Green tiles hold its letter than the
\* secret has copies of the letter left after the Green ones; every other
\* tile is Gray. The vector of tests::test_outcome_of_guess is scored as the
\* test expects.
C3_TwoPassScoring ==
    Scored =>
        LET a == word
            b == guess.guess
            o == guess.outcome
            greens(c) == {j \in 1..Len(b) : b[j] = c /\ a[j] = b[j]}
            earlier(i) == {j \in 1..(i - 1) : b[j] = b[i] /\ a[j] # b[j]}
            left(c) == num_occurrences(a, c) - Cardinality(greens(c))
        IN  /\ Len(o) = Len(b)
            /\ \A i \in 1..Len(b) :
                   o[i] = IF a[i] = b[i] THEN Green
                          ELSE IF Cardinality(earlier(i)) < left(b[i])
                               THEN Yellow
                               ELSE Gray
            /\ (a = TestWord /\ b = TestGuess)
                   => o = <<Green, Gray, Yellow, Green, Yellow,
                            Gray, Yellow, Yellow, Gray, Green>>

\* A repeated letter got its Yellow tile at the left and ran out of copies
\* further right, one copy having gone to a Green tile.
C3_Witness ==
    /\ Scored
    /\ \E i, j, k \in 1..Len(guess.guess) :
          /\ i < j
          /\ guess.guess[i] = guess.guess[j]
          /\ guess.guess[k] = guess.guess[i]
          /\ guess.outcome[i] = Yellow
          /\ guess.outcome[j] = Gray
          /\ guess.outcome[k] = Green

-----------------------------------------------------------------------------
(* Matching one word against one Pattern.                                  *)

\* Non-empty vectors over S that hold no letter twice.
DupFreeVecs(S) ==
    UNION {{v \in [1..n -> S] : \A i, j \in 1..n : v[i] = v[j] => i = j}
            : n \in 1..Cardinality(S)}

\* Maps from some keys of D to values of R.
PartialMaps(D, R) == UNION {[X -> R] : X \in SUBSET D}

PlaceConstraints ==
    {IsChar(c) : c \in PatternLetters}
        \cup {IsNotChars(v) : v \in DupFreeVecs(PatternLetters)}

\* The Patterns whose constraint indices lie inside a word of length n.
PatternsFor(n) ==
    {Pattern(d, m, c) :
        d \in SUBSET PatternLetters,
        m \in PartialMaps(PatternLetters, 1..MaxLen),
        c \in PartialMaps(0..(n - 1), PlaceConstraints)}

MatchedWords == UNION {WordsOver(PatternLetters, n) : n \in 1..MaxLen}

InitMatches ==
    /\ word \in MatchedWords \cup {t.w : t \in MatchCases}
    /\ guess = NoGuess
    /\ knowledge = DefaultPattern
    /\ prior = DefaultPattern
    /\ guesslist = EmptyList
    /\ extant = EmptyList
    /\ rounds = 0
    /\ ret = NoRet
    /\ guesses = <<>>
    /\ pairs = <<>>

\* The Patterns a word is matched against: every bounded Pattern that fits
\* a bounded word, the asserted Patterns for a word of the test.
PatternsAgainst(w) ==
    IF w \in MatchedWords THEN PatternsFor(Len(w))
    ELSE {t.K : t \in {u \in MatchCases : u.w = w}}

\* word.matches(&pattern)
Matches ==
    /\ ret = NoRet
    /\ \E K \in PatternsAgainst(word) :
        /\ knowledge' = K
        /\ ret' = [tag |-> "matches", value |-> matches(word, K)]
    /\ UNCHANGED <<word, guess, prior, guesslist, extant, rounds, guesses, pairs>>

NextMatches == Matches

SpecMatches == InitMatches /\ [][NextMatches]_vars

\* The letters of a word, and of a vector.
LettersOf(w) == {w[i] : i \in 1..Len(w)}

\* How often c occurs in w, counted on the subsequence of its copies.
CopiesIn(w, c) ==
    LET isC(x) == x = c
    IN  Len(SelectSeq(w, isC))

\* What the matching contract asks of word w and Pattern K.
MatchingContract(w, K) ==
    /\ LettersOf(w) \cap K.disallowed = {}
    /\ \A c \in DOMAIN K.must_contain : CopiesIn(w, c) >= K.must_contain[c]
    /\ \A i \in DOMAIN K.constraints :
          /\ K.constraints[i].tag = "IsChar"
                => w[i + 1] = K.constraints[i].ch
          /\ K.constraints[i].tag = "IsNotChars"
                => w[i + 1] \notin LettersOf(K.constraints[i].chars)

\* C4: for a Pattern whose constraint indices are inside the word, matches
\* is true iff no letter of the word is disallowed, every must_contain
\* minimum is met and every positional constraint holds; the words of
\* tests::test_matches get the results the test asserts.
C4_MatchesIffContract ==
    ret.tag = "matches" =>
        /\ ret.value <=> MatchingContract(word, knowledge)
        /\ \A t \in MatchCases :
              (word = t.w /\ knowledge = t.K) => ret.value = t.expected

\* A word matched a Pattern that uses all three fields and both kinds of
\* positional constraint.
C4_Witness ==
    /\ ret.tag = "matches"
    /\ ret.value
    /\ knowledge.disallowed # {}
    /\ DOMAIN knowledge.must_contain # {}
    /\ \E i, j \in DOMAIN knowledge.constraints :
          /\ knowledge.constraints[i].tag = "IsChar"
          /\ knowledge.constraints[j].tag = "IsNotChars"

-----------------------------------------------------------------------------
(* Registering guesses with a strategy, whatever their tiles.              *)

\* The word list of the strategy: the three-letter words over
\* PatternLetterVec in dictionary order, scored by rank (Wordlist::init
\* keeps the words of one length, one score per word).
ListedWords ==
    Collection(<<<<"a", "a", "a">>, <<"a", "a", "b">>, <<"a", "b", "a">>,
                 <<"a", "b", "b">>, <<"b", "a", "a">>, <<"b", "a", "b">>,
                 <<"b", "b", "a">>, <<"b", "b", "b">>>>,
               <<1, 2, 3, 4, 5, 6, 7, 8>>)

\* The words that are guessed: a letter three times, twice with the other
\* letter last or in the middle, and twice around the other letter.
IngestWords ==
    {<<"a", "a", "a">>, <<"a", "a", "b">>, <<"a", "b", "a">>,
     <<"b", "a", "b">>}

\* Every guessed word with every vector of tiles.
IngestGuesses ==
    {Guess(g, o) : g \in IngestWords,
                   o \in [1..Len(ListedWords.words[1]) -> TileOutcome]}

\* EntropyStrategy::init(wordlist): no knowledge, every word extant.
InitIngest ==
    /\ word = <<>>
    /\ guess = NoGuess
    /\ knowledge = DefaultPattern
    /\ prior = DefaultPattern
    /\ guesslist = ListedWords
    /\ extant = ListedWords
    /\ rounds = 0
    /\ ret = NoRet
    /\ guesses = <<>>
    /\ pairs = <<>>

\* EntropyStrategy::register_guess(guess): ingest, then filter the extant
\* collection by the new knowledge.
RegisterGuess ==
    /\ ret = NoRet
    /\ rounds < MaxIngests
    /\ \E g \in IngestGuesses :
        /\ guess' = g
        /\ prior' = knowledge
        /\ knowledge' = ingest(knowledge, g)
        /\ extant' = filter_pattern(extant, ingest(knowledge, g))
    /\ rounds' = rounds + 1
    /\ UNCHANGED <<word, guesslist, ret, guesses, pairs>>

\* The guesses of pairwise distinct letters over Alphabet, with every
\* vector of tiles, and the guess of tests::test_ingest's first case.
FreshGuesses ==
    {Tares} \cup
    UNION {{Guess(g, o) :
                g \in {w \in WordsOver(Alphabet, n) :
                          \A i, j \in 1..n : w[i] = w[j] => i = j},
                o \in [1..n -> TileOutcome]}
            : n \in 1..Cardinality(Alphabet)}

\* tests::test_ingest, first case: Pattern::default().ingest(guess).
TestIngestDefault ==
    /\ ret = NoRet
    /\ rounds = 0
    /\ \E g \in FreshGuesses :
        /\ guess' = g
        /\ knowledge' = ingest(DefaultPattern, g)
    /\ prior' = DefaultPattern
    /\ ret' = [tag |-> "test_default"]
    /\ UNCHANGED <<word, guesslist, extant, rounds, guesses, pairs>>

\* tests::test_ingest, second case: a Pattern with forced letters ingests
\* "dedefe".
TestIngestForced ==
    /\ ret = NoRet
    /\ rounds = 0
    /\ guess' = Dedefe
    /\ prior' = ForcedPattern
    /\ knowledge' = ingest(ForcedPattern, Dedefe)
    /\ ret' = [tag |-> "test_forced"]
    /\ UNCHANGED <<word, guesslist, extant, rounds, guesses, pairs>>

\* The leading letters and tiles of the guessed words: guesses that stop
\* short of the last position.
ShorterGuesses ==
    {Guess(SubSeq(g.guess, 1, n), SubSeq(g.outcome, 1, n)) :
        g \in IngestGuesses, n \in 1..(Len(ListedWords.words[1]) - 1)}

\* Pattern::ingest of a guess shorter than the one ingested before it.
TestIngestShorter ==
    /\ ret = NoRet
    /\ rounds = 1
    /\ \E g \in ShorterGuesses :
        /\ guess' = g
        /\ knowledge' = ingest(knowledge, g)
    /\ prior' = knowledge
    /\ ret' = [tag |-> "test_shorter"]
    /\ UNCHANGED <<word, guesslist, extant, rounds, guesses, pairs>>

NextIngest ==
    RegisterGuess \/ TestIngestDefault \/ TestIngestForced
        \/ TestIngestShorter

SpecIngest == InitIngest /\ [][NextIngest]_vars

\* An ingest has happened: knowledge = ingest(prior, guess).
Ingested == guess # NoGuess

\* The ingest was one of a chain that started at the default Pattern.
FromDefault == Ingested /\ ret.tag # "test_forced"

\* The letters and tiles of the ingested guess, by 1-based position.
Letter(p) == guess.guess[p]
Tile(p) == guess.outcome[p]
Tiles == 1..Len(guess.guess)

\* The letters an ingest can touch.
SeenLetters ==
    LettersOf(guess.guess) \cup prior.disallowed \cup knowledge.disallowed
        \cup DOMAIN prior.must_contain \cup DOMAIN knowledge.must_contain

\* Letter c has a tile of one of the kinds ts in the ingested guess.
HasTile(c, ts) == \E p \in Tiles : Letter(p) = c /\ Tile(p) \in ts

\* The letters this ingest added to disallowed.
NewlyDisallowed == knowledge.disallowed \ prior.disallowed

\* Position p was forced (IsChar) before the ingest.
ForcedBefore(p) ==
    /\ (p - 1) \in DOMAIN prior.constraints
    /\ prior.constraints[p - 1].tag = "IsChar"

\* Position p forbids letter c after the ingest.
ForbidsAfter(p, c) ==
    /\ (p - 1) \in DOMAIN knowledge.constraints
    /\ knowledge.constraints[p - 1].tag = "IsNotChars"
    /\ c \in LettersOf(knowledge.constraints[p - 1].chars)

\* C5: ingesting into the default Pattern a guess of pairwise distinct
\* letters whose tiles are all Yellow or Gray disallows exactly the Gray
\* letters, requires exactly one copy of each Yellow letter and forbids at
\* every position the letter guessed there; "tares" with Yellow, Gray, Gray,
\* Gray, Gray gives disallowed {a,r,e,s}, must_contain {t: 1}, position 0
\* 'not t'.
C5_IngestIntoDefault ==
    /\ ( /\ Ingested
         /\ prior = DefaultPattern
         /\ \A p, q \in Tiles : Letter(p) = Letter(q) => p = q
         /\ \A p \in Tiles : Tile(p) \in {Yellow, Gray} )
       => /\ knowledge.disallowed = {Letter(p) : p \in {q \in Tiles : Tile(q) = Gray}}
          /\ knowledge.must_contain
                = [c \in {Letter(p) : p \in {q \in Tiles : Tile(q) = Yellow}} |-> 1]
          /\ knowledge.constraints
                = [idx \in 0..(Len(guess.guess) - 1)
                       |-> IsNotChars(<<guess.guess[idx + 1]>>)]
    /\ (guess = Tares /\ prior = DefaultPattern)
       => /\ knowledge.disallowed = {"a", "r", "e", "s"}
          /\ knowledge.must_contain = [c \in {"t"} |-> 1]
          /\ knowledge.constraints[0] = IsNotChars(<<"t">>)

\* The default Pattern ingested three distinct letters with both a Yellow
\* and a Gray tile and none Green.
C5_Witness ==
    /\ Ingested
    /\ prior = DefaultPattern
    /\ guess # Tares
    /\ Len(guess.guess) = 3
    /\ \A p, q \in Tiles : Letter(p) = Letter(q) => p = q
    /\ \A p \in Tiles : Tile(p) \in {Yellow, Gray}
    /\ \E p, q \in Tiles : Tile(p) = Yellow /\ Tile(q) = Gray

\* The part of C6 about disallowed: a letter with a Gray tile and a Yellow
\* or Green tile in the same guess is not added, and a letter is added only
\* when it has a Gray tile and no Yellow or Green tile in the guess.
C6_DisallowedPart ==
    /\ \A c \in SeenLetters :
          (HasTile(c, {Gray}) /\ HasTile(c, {Yellow, Green}))
              => c \notin NewlyDisallowed
    /\ \A c \in NewlyDisallowed :
          HasTile(c, {Gray}) /\ ~HasTile(c, {Yellow, Green})

\* C6 as stated: on top of the part about disallowed, the Gray position of
\* such a letter receives the 'not this letter' constraint unless the
\* position is already forced.
C6_AsStated ==
    Ingested =>
        /\ C6_DisallowedPart
        /\ \A p \in Tiles :
              ( /\ Tile(p) = Gray
                /\ HasTile(Letter(p), {Yellow, Green})
                /\ ~ForcedBefore(p) )
              => ForbidsAfter(p, Letter(p))

\* C6 amended: a letter with a Gray tile and a Yellow or Green tile in the
\* same guess is not added to disallowed, a letter is added only when it has
\* a Gray tile and no Yellow or Green one, and a Gray position receives the
\* 'not this letter' constraint unless the position is already forced or
\* the letter was disallowed before this ingest; in those two cases the
\* constraint of the position is left as it was.
C6_GrayTiles ==
    Ingested =>
        /\ C6_DisallowedPart
        /\ \A p \in Tiles :
              Tile(p) = Gray =>
                IF ForcedBefore(p) \/ Letter(p) \in prior.disallowed
                THEN /\ (p - 1) \in DOMAIN knowledge.constraints
                            <=> (p - 1) \in DOMAIN prior.constraints
                     /\ (p - 1) \in DOMAIN prior.constraints
                            => knowledge.constraints[p - 1]
                                 = prior.constraints[p - 1]
                ELSE ForbidsAfter(p, Letter(p))

\* A second ingest met a letter with a Gray and a Yellow or Green tile: the
\* letter stayed out of disallowed and its Gray position forbids it.
C6_Witness ==
    /\ Ingested
    /\ rounds = 2
    /\ \E p \in Tiles :
          /\ Tile(p) = Gray
          /\ HasTile(Letter(p), {Yellow, Green})
          /\ Letter(p) \notin knowledge.disallowed
          /\ ForbidsAfter(p, Letter(p))
    /\ \E p \in Tiles :
          /\ Tile(p) = Gray
          /\ Letter(p) \in NewlyDisallowed

\* How many Yellow or Green tiles letter c has in the ingested guess.
Counted(c) == Cardinality({p \in Tiles : Letter(p) = c /\ Tile(p) \in {Yellow, Green}})

\* The minimum the Pattern K holds for letter c, zero when it holds none.
MinimumOf(K, c) == IF c \in DOMAIN K.must_contain THEN K.must_contain[c] ELSE 0

\* C7: after an ingest every letter with a Yellow or Green tile in the guess
\* has must_contain = max(old minimum or 0, its number of Yellow or Green
\* tiles), every other entry is unchanged, so no minimum decreases and no
\* key is removed.
C7_MinimumIsMax ==
    Ingested =>
        /\ \A c \in SeenLetters :
              IF Counted(c) >= 1
              THEN /\ c \in DOMAIN knowledge.must_contain
                   /\ knowledge.must_contain[c]
                        = IF MinimumOf(prior, c) >= Counted(c)
                          THEN MinimumOf(prior, c) ELSE Counted(c)
              ELSE /\ c \in DOMAIN knowledge.must_contain
                        <=> c \in DOMAIN prior.must_contain
                   /\ MinimumOf(knowledge, c) = MinimumOf(prior, c)
        /\ \A c \in DOMAIN prior.must_contain :
              /\ c \in DOMAIN knowledge.must_contain
              /\ knowledge.must_contain[c] >= prior.must_contain[c]

\* A guess showed fewer copies of a letter than were already required, and
\* another letter got its first minimum.
C7_Witness ==
    /\ Ingested
    /\ \E c \in SeenLetters :
          /\ Counted(c) >= 1
          /\ MinimumOf(prior, c) > Counted(c)
    /\ \E c \in SeenLetters :
          /\ Counted(c) >= 1
          /\ c \notin DOMAIN prior.must_contain

\* C8: in every Pattern reached from the default one by ingests no letter
\* is both disallowed and a key of must_contain, and a letter is added to
\* disallowed only when the knowledge requires no copy of it.
C8_DisallowedNeverRequired ==
    FromDefault =>
        /\ knowledge.disallowed \cap DOMAIN knowledge.must_contain = {}
        /\ \A c \in NewlyDisallowed : MinimumOf(prior, c) = 0

\* C10: ingesting a guess, whatever its tiles, never lets more words of the
\* collection match than matched before.
C10_Monotonic ==
    (Ingested /\ ret = NoRet) =>
        Len(filter_pattern(guesslist, knowledge).words)
            <= Len(filter_pattern(guesslist, prior).words)

\* C20: a position forced (IsChar) before an ingest is forced after it: a
\* Gray or Yellow tile there leaves the constraint as it was, a Green tile
\* writes IsChar of the guessed letter, and the constraint of a position
\* the guess does not cover is carried over unchanged.
C20_ForcedStaysForced ==
    Ingested =>
        /\ \A p \in 1..(Len(guess.guess) + Len(ListedWords.words[1])) :
              ForcedBefore(p) =>
                /\ (p - 1) \in DOMAIN knowledge.constraints
                /\ knowledge.constraints[p - 1].tag = "IsChar"
                /\ knowledge.constraints[p - 1] =
                        IF p \in Tiles /\ Tile(p) = Green
                        THEN IsChar(Letter(p))
                        ELSE prior.constraints[p - 1]
        /\ \A idx \in DOMAIN prior.constraints :
              (idx + 1) \notin Tiles =>
                /\ idx \in DOMAIN knowledge.constraints
                /\ knowledge.constraints[idx] = prior.constraints[idx]

\* A forced position got a Gray or Yellow tile for another letter, one
\* that is not disallowed, and another forced position lies past the end
\* of the guess.
C20_Witness ==
    /\ Ingested
    /\ \E p \in Tiles :
          /\ ForcedBefore(p)
          /\ Tile(p) \in {Gray, Yellow}
          /\ Letter(p) # prior.constraints[p - 1].ch
          /\ Letter(p) \notin prior.disallowed
    /\ \E idx \in DOMAIN prior.constraints :
          /\ (idx + 1) \notin Tiles
          /\ prior.constraints[idx].tag = "IsChar"

\* A forced position got a Green tile for another letter: the constraint
\* is rewritten, as IsChar of the guessed letter.
C20_GreenRewrites ==
    /\ Ingested
    /\ \E p \in Tiles :
          /\ ForcedBefore(p)
          /\ Tile(p) = Green
          /\ Letter(p) # prior.constraints[p - 1].ch
          /\ knowledge.constraints[p - 1] = IsChar(Letter(p))

-----------------------------------------------------------------------------
(* Filtering one collection by one Pattern.                                *)

\* The collections of up to MaxWords listed words, repeats allowed, each
\* word scored by its place in the collection.
Collections ==
    UNION {{Collection(ws, [k \in 1..n |-> k]) :
                ws \in [1..n -> LettersOf(ListedWords.words)]}
            : n \in 0..MaxWords}

\* The Patterns one guess leaves behind, and the default one.
FilterPatterns ==
    {DefaultPattern} \cup {ingest(DefaultPattern, g) : g \in IngestGuesses}

InitFilter ==
    /\ word = <<>>
    /\ guess = NoGuess
    /\ knowledge = DefaultPattern
    /\ prior = DefaultPattern
    /\ guesslist \in Collections
    /\ extant = EmptyList
    /\ rounds = 0
    /\ ret = NoRet
    /\ guesses = <<>>
    /\ pairs = <<>>

\* let sublist = collection.filter_pattern(&pattern)
FilterPattern ==
    /\ ret = NoRet
    /\ \E K \in FilterPatterns :
        /\ knowledge' = K
        /\ extant' = filter_pattern(guesslist, K)
    /\ ret' = [tag |-> "filter"]
    /\ UNCHANGED <<word, guess, prior, guesslist, rounds, guesses, pairs>>

NextFilter == FilterPattern

SpecFilter == InitFilter /\ [][NextFilter]_vars

\* The 1-based places of the collection C whose word matches K.
Kept(C, K) == {i \in 1..Len(C.words) : matches(C.words[i], K)}

\* The j-th smallest member of a set of numbers.
Nth(S, j) == CHOOSE i \in S : Cardinality({k \in S : k <= i}) = j

\* The result R holds, in order, the matching words of C with the scores of
\* their places, and as many scores as words.
FilteredFrom(R, C, K) ==
    /\ Len(R.words) = Cardinality(Kept(C, K))
    /\ Len(R.scores) = Len(R.words)
    /\ \A j \in 1..Len(R.words) :
          /\ R.words[j] = C.words[Nth(Kept(C, K), j)]
          /\ R.scores[j] = C.scores[Nth(Kept(C, K), j)]

\* C9: filter_pattern returns exactly the words of the collection that
\* match, in their order, each with the score of its index, words and scores
\* of equal length; the collection itself is left unchanged.
C9_FilterKeepsMatching ==
    /\ [](ret.tag = "filter" => FilteredFrom(extant, guesslist, knowledge))
    /\ [][guesslist' = guesslist]_vars

\* A filter dropped the first word of a collection and kept a later one.
C9_Witness ==
    /\ ret.tag = "filter"
    /\ Len(guesslist.words) >= 2
    /\ 1 \notin Kept(guesslist, knowledge)
    /\ Len(extant.words) >= 1

-----------------------------------------------------------------------------
(* A game: a secret, guesses made through Game::make_guess, and one call   *)
(* of EntropyStrategy::chosen_guess whose workers run in any order.        *)

\* The words of the guess lists: three letters, the middle one shared, so
\* that a guess can leave two candidates it does not tell apart.
GameWords ==
    {<<"a", "a", "a">>, <<"b", "a", "b">>, <<"c", "a", "c">>}

\* A word of the answer list that is in no guess list.
AnswerOnlyWord == <<"b", "b", "b">>

\* The guess lists: every sequence of up to as many game words as there
\* are, repeats allowed (Wordlist::init does not deduplicate), the empty
\* list included; each word scored by its place.
GameLists ==
    UNION {{Collection(ws, [k \in 1..n |-> k]) : ws \in [1..n -> GameWords]}
            : n \in 0..Cardinality(GameWords)}

\* Game.strategy
strategy == EntropyStrategy(knowledge, guesslist, extant)

\* Game::init(guesslist, answerlist, &EntropyStrategy::init), then
\* choose_word or choose_random_word.
InitGame ==
    /\ word \in GameWords \cup {AnswerOnlyWord}
    /\ guess = NoGuess
    /\ guesslist \in GameLists
    /\ knowledge = init(guesslist).knowledge
    /\ prior = init(guesslist).knowledge
    /\ extant = init(guesslist).extant
    /\ rounds = 0
    /\ ret = NoRet
    /\ guesses = <<>>
    /\ pairs = <<>>

\* Game::make_guess(g): score g against the secret, register the Guess with
\* the strategy, push it.
make_guess(g) ==
    \E made \in {Guess(g, outcome_of_guess(word, g))} :
        \E registered \in {register_guess(strategy, made)} :
            /\ guess' = made
            /\ prior' = knowledge
            /\ knowledge' = registered.knowledge
            /\ extant' = registered.extant
            /\ guesses' = Append(guesses, made)
            /\ rounds' = rounds + 1
            /\ UNCHANGED <<word, guesslist>>

\* A guess picked by hand from the allowed guesses (human_repl).
MakeGuess ==
    /\ ret = NoRet
    /\ rounds < MaxIngests
    /\ \E k \in 1..Len(guesslist.words) : make_guess(guesslist.words[k])
    /\ UNCHANGED <<ret, pairs>>

\* 0-based indices of the allowed guesses whose worker has finished.
Finished == {pairs[i].idx : i \in 1..Len(pairs)}

\* chosen_guess, one worker of all_guesses.par_iter().map(..): the worker
\* of any allowed guess not yet done finishes with its pair.
ChosenGuessWorker ==
    /\ ret.tag \in {"none", "choosing"}
    /\ \E idx \in 0..(Len(guesslist.words) - 1) :
        /\ idx \notin Finished
        /\ \E done \in {worker(strategy, unweighted_entropy(extant),
                                 guesslist.words[idx + 1])} :
              pairs' = Append(pairs, [idx   |-> idx,
                                      score |-> done.score,
                                      guess |-> done.guess])
    /\ ret' = [tag |-> "choosing"]
    /\ UNCHANGED <<word, guess, knowledge, prior, guesslist, extant, rounds,
                   guesses>>

\* A collect that keeps the pairs in the order the workers finished.
collect_as_finished(done) == done

\* .collect() of an indexed parallel iterator: the pairs in the order of
\* the allowed guesses, whatever order the workers finished in.
collect(done) ==
    [k \in 1..Len(done) |->
        LET i == CHOOSE j \in 1..Len(done) : done[j].idx = k - 1
        IN  done[i]]

\* chosen_guess, once every worker is done: collect, sort, first.
ChosenGuessReturn ==
    /\ ret.tag \in {"none", "choosing"}
    /\ Len(pairs) = Len(guesslist.words)
    /\ ret' = [tag |-> "chosen", value |-> SortAndPick(collect(pairs))]
    /\ UNCHANGED <<word, guess, knowledge, prior, guesslist, extant, rounds,
                   guesses, pairs>>

NextGame == MakeGuess \/ ChosenGuessWorker \/ ChosenGuessReturn

SpecGame == InitGame /\ [][NextGame]_vars

\* chosen_guess has returned.
Chosen == ret.tag = "chosen"

\* The sum of a sequence of numbers.
RECURSIVE SumSeq(_)
SumSeq(v) == IF v = <<>> THEN 0 ELSE v[1] + SumSeq(Tail(v))

\* log2 of the number of extant words left by the knowledge that ingesting
\* guess g with tiles p would give, in millionths.
EntropyAfter(g, p) ==
    Log2Table[Cardinality(Kept(extant, ingest(knowledge, Guess(g, p))))]

\* The gain of guess g as the sum, over the extant words, of the entropy
\* drop of the outcome the word gives; `win` says whether the all-Green
\* outcome against a single extant word counts as entropy -1000.
GainOf(g, win) ==
    LET N == Len(extant.words)
        drop(i) ==
            LET p == outcome_of_guess(extant.words[i], g)
            IN  IF win /\ N = 1 /\ \A t \in 1..Len(p) : p[t] = Green
                THEN 1000 * One
                ELSE Log2Table[N] - EntropyAfter(g, p)
    IN  SumSeq([i \in 1..N |-> drop(i)])

\* The first allowed guess whose gain no allowed guess exceeds.
FirstOfGreatestGain(win) ==
    LET all == guesslist.words
        best == {k \in 1..Len(all) :
                    \A j \in 1..Len(all) : GainOf(all[j], win) <= GainOf(all[k], win)}
    IN  all[CHOOSE k \in best : \A j \in best : k <= j]

\* C11 as stated: with extant words left, chosen_guess returns the first
\* allowed guess of greatest gain, the gain being the sum over the outcome
\* patterns of count * (entropy of extant - entropy of the filtered extant).
C11_AsStated ==
    (Chosen /\ extant.words # <<>>)
        => ret.value = Some(FirstOfGreatestGain(FALSE))

\* C11 amended: the same, with the entropy of the all-Green pattern taken
\* as -1000 when exactly one word is extant.
C11_FirstOfGreatestGain ==
    (Chosen /\ extant.words # <<>>)
        => ret.value = Some(FirstOfGreatestGain(TRUE))

\* Two extant words are left, the first allowed guess does not tell them
\* apart, and two later guesses tie for the greatest gain: the earlier of
\* the two was returned.
C11_Witness ==
    /\ Chosen
    /\ Len(extant.words) = 2
    /\ \E j, k \in 2..Len(guesslist.words) :
          /\ j < k
          /\ ret.value = Some(guesslist.words[j])
          /\ guesslist.words[j] # guesslist.words[k]
          /\ GainOf(guesslist.words[j], TRUE) = GainOf(guesslist.words[k], TRUE)
          /\ GainOf(guesslist.words[1], TRUE) < GainOf(guesslist.words[j], TRUE)

\* C12: chosen_guess returns None when the allowed-guess list is empty, it
\* does not panic, and a word it returns is an element of the allowed-guess
\* list.
C12_NoneOnEmptyListElseAllowed ==
    Chosen =>
        /\ ret.value # Panicked
        /\ guesslist.words = <<>> => ret.value = None
        /\ ret.value.tag = "Some"
              => ret.value.value \in LettersOf(guesslist.words)

\* chosen_guess ran on an empty allowed-guess list and returned None.
C12_Witness ==
    /\ Chosen
    /\ guesslist.words = <<>>
    /\ ret.value = None

\* A word was returned that is allowed but no longer extant.
C12_ReturnedNotExtant ==
    /\ Chosen
    /\ ret.value.tag = "Some"
    /\ ret.value.value \notin LettersOf(extant.words)

\* C13: with no extant word left and a non-empty allowed-guess list,
\* chosen_guess returns None.
C13_NoneOnEmptyExtant ==
    (Chosen /\ extant.words = <<>> /\ guesslist.words # <<>>)
        => ret.value = None

\* What the code does there: every allowed guess scores 0.0, and the first
\* of them is returned.
C13_FirstAllowedOnEmptyExtant ==
    (Chosen /\ extant.words = <<>> /\ guesslist.words # <<>>)
        => /\ \A i \in 1..Len(pairs) : pairs[i].score = Finite(0)
           /\ ret.value = Some(guesslist.words[1])

\* Soundness part of the game: in a game whose secret is in the guess list
\* every extant word, the secret included, matches the knowledge.
ExtantMatchKnowledge ==
    \A i \in 1..Len(extant.words) : matches(extant.words[i], knowledge)

\* C17: with the secret in the guess list, after every make_guess the
\* secret matches the knowledge and is still extant, and no letter is both
\* disallowed and required.
C17_SecretStaysExtant ==
    (word \in LettersOf(guesslist.words) /\ rounds >= 1) =>
        /\ matches(word, knowledge)
        /\ word \in LettersOf(extant.words)
        /\ knowledge.disallowed \cap DOMAIN knowledge.must_contain = {}

\* Two guesses that missed were made against a listed secret; letters got
\* disallowed, a letter of the secret got required with a Gray copy beside
\* its Green one, and the secret is still extant.
C17_Witness ==
    /\ word \in LettersOf(guesslist.words)
    /\ rounds >= 2
    /\ \A i \in 1..Len(guesses) : guesses[i].guess # word
    /\ knowledge.disallowed # {}
    /\ \E i \in 1..Len(guesses) : \E p, q \in 1..Len(guesses[i].guess) :
          /\ guesses[i].guess[p] = guesses[i].guess[q]
          /\ guesses[i].outcome[p] = Gray
          /\ guesses[i].outcome[q] = Green
    /\ word \in LettersOf(extant.words)

\* C18: when exactly one word is extant, chosen_guess returns it wherever it
\* stands in the allowed-guess list: its pair scores 1000.0 and every pair
\* of another word scores less.
C18_SingleExtantIsChosen ==
    (Chosen /\ Len(extant.words) = 1) =>
        /\ ret.value = Some(extant.words[1])
        /\ \A i \in 1..Len(pairs) :
              IF pairs[i].guess = extant.words[1]
              THEN pairs[i].score =
                        FSub(Finite(0), ENTROPY_STRATEGY_WIN_VALUE)
              ELSE partial_cmp(pairs[i].score,
                               FSub(Finite(0), ENTROPY_STRATEGY_WIN_VALUE))
                        = "Less"

\* The one extant word stands last in a list of three and was returned.
C18_Witness ==
    /\ Chosen
    /\ Len(extant.words) = 1
    /\ Len(guesslist.words) = 3
    /\ guesslist.words[3] = extant.words[1]
    /\ guesslist.words[1] # extant.words[1]
    /\ ret.value = Some(guesslist.words[3])

\* The pairs of greatest score, by the 0-based index of their guess.
GreatestPairs ==
    {i \in 1..Len(pairs) :
        \A j \in 1..Len(pairs) :
            partial_cmp(pairs[j].score, pairs[i].score) # "Greater"}

\* C19: whatever order the workers finished in, there is one pair per
\* allowed guess, each for its own guess, and the word returned is the one
\* a sequential run returns: the pair of greatest score whose guess has the
\* least index.
C19_SameForEveryWorkerOrder ==
    Chosen =>
        /\ Finished = 0..(Len(guesslist.words) - 1)
        /\ Len(pairs) = Len(guesslist.words)
        /\ \A i \in 1..Len(pairs) :
              pairs[i] = [idx   |-> pairs[i].idx,
                          score |-> worker(strategy, unweighted_entropy(extant),
                                           guesslist.words[pairs[i].idx + 1]).score,
                          guess |-> guesslist.words[pairs[i].idx + 1]]
        /\ ret.value = chosen_guess(strategy)
        /\ \A i \in GreatestPairs :
              (\A j \in GreatestPairs : pairs[i].idx <= pairs[j].idx)
                  => ret.value = Some(pairs[i].guess)

\* Two different guesses tie for the greatest score and the worker of the
\* later one finished first.
C19_Witness ==
    /\ Chosen
    /\ \E i, j \in GreatestPairs :
          /\ i < j
          /\ pairs[i].idx > pairs[j].idx
          /\ pairs[i].guess # pairs[j].guess
          /\ ret.value = Some(pairs[j].guess)

\* The 1-based places of the extant words whose outcome against g is p.
Producing(g, p) ==
    {i \in 1..Len(extant.words) : outcome_of_guess(extant.words[i], g) = p}

\* C23: for every allowed guess g and every outcome p that an extant word
\* gives for g, the extant words filtered by ingest(knowledge, (g, p)) hold
\* every extant word that gives p, so at least count(p) >= 1 words; every
\* gain is a finite number and the sort of chosen_guess does not panic.
C23_SublistHoldsItsPattern ==
    /\ \A k \in 1..Len(guesslist.words) :
          LET g == guesslist.words[k]
              patterns == possible_patterns(extant.words, g)
          IN  /\ \A p \in DOMAIN patterns :
                    LET pattern == ingest(knowledge, Guess(g, p))
                    IN  /\ patterns[p] >= 1
                        /\ patterns[p] = Cardinality(Producing(g, p))
                        /\ \A i \in Producing(g, p) :
                              matches(extant.words[i], pattern)
                        /\ Len(filter_pattern(extant, pattern).words)
                                >= patterns[p]
              /\ worker(strategy, unweighted_entropy(extant), g).score.kind
                    = "finite"
    /\ \A i \in 1..Len(pairs) : pairs[i].score.kind = "finite"
    /\ Chosen => ret.value # Panicked

\* chosen_guess returned after a guess was registered, with two extant
\* words that an allowed guess tells apart and two pairs to compare.
C23_Witness ==
    /\ Chosen
    /\ Len(guesses) >= 1
    /\ Len(pairs) >= 2
    /\ \E k \in 1..Len(guesslist.words) :
          Cardinality(DOMAIN possible_patterns(extant.words,
                                               guesslist.words[k])) >= 2

-----------------------------------------------------------------------------
(* The benchmark's game: the strategy plays its own chosen guess until the *)
(* game is over.                                                           *)

\* Game::init, then game.choose_word(word) for a word of the guess list.
InitLoop ==
    /\ InitGame
    /\ guesslist.words # <<>>
    /\ word \in LettersOf(guesslist.words)

\* game.next_guess() in a turn of `while !game.is_over()` (and for the
\* first guess): one worker of chosen_guess finishes.
LoopWorker ==
    /\ ~is_over(word, guesses)
    /\ ChosenGuessWorker

\* game.next_guess() returns.
LoopNextGuess ==
    /\ ~is_over(word, guesses)
    /\ ChosenGuessReturn

\* .expect("Could not compute guess!"), then game.make_guess(guess).
LoopMakeGuess ==
    /\ ret.tag = "chosen"
    /\ IF ret.value.tag = "Some"
       THEN /\ make_guess(ret.value.value)
            /\ ret' = NoRet
            /\ pairs' = <<>>
       ELSE /\ ret' = [tag |-> "panic"]
            /\ UNCHANGED <<word, guess, knowledge, prior, guesslist, extant,
                           rounds, guesses, pairs>>

NextLoop == LoopWorker \/ LoopNextGuess \/ LoopMakeGuess

\* The loop runs on: a step that can be taken is taken.
SpecLoop == InitLoop /\ [][NextLoop]_vars /\ WF_vars(NextLoop)

\* C14: the loop ends in GuesserVictory or GuesserDefeat, after at most
\* six guesses and without a panic, and once a guess is made current_state
\* is neither Invalid nor NotStarted.
C14_LoopEndsWithinSixGuesses ==
    /\ <>(current_state(word, guesses) \in {GuesserVictory, GuesserDefeat})
    /\ [](Len(guesses) <= ALLOWED_GUESSES_PER_GAME)
    /\ [](ret.tag # "panic")
    /\ [](Len(guesses) >= 1
            => current_state(word, guesses) \notin {Invalid, NotStarted})

\* A game was lost at the sixth guess.
C14_Witness ==
    /\ Len(guesses) = ALLOWED_GUESSES_PER_GAME
    /\ current_state(word, guesses) = GuesserDefeat

\* A game was won at the third guess.
C14_WonAtThird ==
    /\ Len(guesses) = 3
    /\ current_state(word, guesses) = GuesserVictory

-----------------------------------------------------------------------------
(* Calls outside the preconditions: a guess whose length is not the        *)
(* secret's, a Pattern with a constraint index outside the word.           *)

\* A call that returned v instead of panicking.
Returned(v) == [tag |-> "returned", value |-> v]

\* Word::outcome_of_guess(&self, guess) for a guess of any length.
\* debug_assert_eq!(guess.len(), self.len()) is compiled only into a build
\* with debug assertions; without it the first loop indexes self.word[idx]
\* for every idx below guess.len(), which panics when the guess is the
\* longer one, and both loops run through when the guess is the shorter one.
outcome_of_guess_call(self, g, debug_assertions) ==
    IF debug_assertions /\ Len(g) # Len(self) THEN Panicked
    ELSE IF Len(g) > Len(self) THEN Panicked
    ELSE Returned(outcome_of_guess(self, g))

\* Word::obeys_constraint for any index:
\* self.word.get(*idx).expect("Constraint index out of bounds!")
obeys_constraint_call(self, idx, cons) ==
    IF idx >= Len(self) THEN Panicked
    ELSE Returned(obeys_constraint(self, idx, cons))

\* The third loop of Word::matches, over the constraints in the order the
\* HashMap yields them: false at the first one not obeyed.
RECURSIVE ConstraintLoop(_, _, _)
ConstraintLoop(self, pattern, order) ==
    IF order = <<>> THEN Returned(TRUE)
    ELSE With(obeys_constraint_call(self, order[1],
                                    pattern.constraints[order[1]]),
              LAMBDA obeys :
                IF obeys = Panicked THEN Panicked
                ELSE IF ~obeys.value THEN Returned(FALSE)
                ELSE ConstraintLoop(self, pattern, Tail(order)))

\* Word::matches for any Pattern, its constraints iterated in `order`.
matches_call(self, pattern, order) ==
    IF \E ch \in pattern.disallowed : has_letter(self, ch)
    THEN Returned(FALSE)
    ELSE IF \E ch \in DOMAIN pattern.must_contain :
                num_occurrences(self, ch) < pattern.must_contain[ch]
         THEN Returned(FALSE)
         ELSE ConstraintLoop(self, pattern, order)

\* The orders a HashMap may yield the keys S in.
IterationOrders(S) ==
    {v \in [1..Cardinality(S) -> S] :
        \A i, j \in 1..Cardinality(S) : v[i] = v[j] => i = j}

\* The receivers of the calls.
ContractWords == {<<"a">>, <<"a", "b">>, <<"b", "b">>}

\* The guesses scored against them: shorter, as long, longer.
ContractGuesses ==
    {<<>>, <<"a">>, <<"b">>, <<"a", "a">>, <<"b", "a">>, <<"b", "b">>,
     <<"a", "b", "a">>, <<"b", "b", "b">>}

\* The Patterns a word w is matched against: their constraint indices run
\* up to one past the end of w.
ContractPatterns(w) ==
    {Pattern(d, m, c) :
        d \in SUBSET PatternLetters,
        m \in PartialMaps(PatternLetters, {1}),
        c \in PartialMaps(0..Len(w),
                          {IsChar("a"), IsChar("b"), IsNotChars(<<"a">>)})}

InitContract ==
    /\ word \in ContractWords
    /\ guess = NoGuess
    /\ knowledge = DefaultPattern
    /\ prior = DefaultPattern
    /\ guesslist = EmptyList
    /\ extant = EmptyList
    /\ rounds = 0
    /\ ret = NoRet
    /\ guesses = <<>>
    /\ pairs = <<>>

\* self.word.outcome_of_guess(guess), in a build with or without debug
\* assertions.
OutcomeOfGuessCall ==
    /\ ret = NoRet
    /\ \E g \in ContractGuesses, debug_assertions \in BOOLEAN :
        /\ guess' = Guess(g, <<>>)
        /\ ret' = [tag   |-> "outcome_of_guess",
                   debug_assertions |-> debug_assertions,
                   value |-> outcome_of_guess_call(word, g, debug_assertions)]
    /\ UNCHANGED <<word, knowledge, prior, guesslist, extant, rounds, guesses,
                   pairs>>

\* word.matches(&pattern)
MatchesCall ==
    /\ ret = NoRet
    /\ \E K \in ContractPatterns(word) :
        \E order \in IterationOrders(DOMAIN K.constraints) :
            /\ knowledge' = K
            /\ ret' = [tag   |-> "matches_call",
                       order |-> order,
                       value |-> matches_call(word, K, order)]
    /\ UNCHANGED <<word, guess, prior, guesslist, extant, rounds, guesses,
                   pairs>>

NextContract == OutcomeOfGuessCall \/ MatchesCall

SpecContract == InitContract /\ [][NextContract]_vars

\* C15: a call of the outcome computer with a guess that is shorter or
\* longer than the secret aborts and returns no outcome vector.
C15_LengthMismatchFailsFast ==
    (ret.tag = "outcome_of_guess" /\ Len(guess.guess) # Len(word))
        => ret.value = Panicked

\* What the code does on a length mismatch: it aborts in a build with debug
\* assertions and for a longer guess; a shorter guess in a build without
\* them is scored against the leading letters of the secret.
C15_ShorterGuessScoredWithoutDebugAssertions ==
    (ret.tag = "outcome_of_guess" /\ Len(guess.guess) # Len(word))
        => IF ret.debug_assertions \/ Len(guess.guess) > Len(word)
           THEN ret.value = Panicked
           ELSE /\ ret.value.tag = "returned"
                /\ Len(ret.value.value) = Len(guess.guess)

\* A shorter guess was scored: an outcome vector came back.
C15_ShorterGuessScored ==
    /\ ret.tag = "outcome_of_guess"
    /\ Len(guess.guess) < Len(word)
    /\ ret.value = Returned(<<Green>>)

\* The Pattern holds a constraint whose index is outside the word.
IndexOutOfBounds ==
    \E idx \in DOMAIN knowledge.constraints : idx >= Len(word)

\* C16: matches aborts whenever the Pattern holds a constraint whose index
\* is outside the word, whatever the other fields and the iteration order.
C16_OutOfBoundsIndexFailsFast ==
    (ret.tag = "matches_call" /\ IndexOutOfBounds) => ret.value = Panicked

\* What the code does with such a Pattern: it returns false when a letter
\* is disallowed, a minimum is missed or a constraint that comes earlier in
\* the iteration is not obeyed, and aborts otherwise; it never returns true.
C16_FalseBeforeTheIndexIsRead ==
    (ret.tag = "matches_call" /\ IndexOutOfBounds)
        => LET K == knowledge
               first == CHOOSE i \in 1..Len(ret.order) :
                            /\ ret.order[i] >= Len(word)
                            /\ \A j \in 1..(i - 1) : ret.order[j] < Len(word)
               early ==
                    \/ \E ch \in K.disallowed : has_letter(word, ch)
                    \/ \E ch \in DOMAIN K.must_contain :
                          num_occurrences(word, ch) < K.must_contain[ch]
                    \/ \E j \in 1..(first - 1) :
                          ~obeys_constraint(word, ret.order[j],
                                            K.constraints[ret.order[j]])
           IN  ret.value = IF early THEN Returned(FALSE) ELSE Panicked

\* matches returned false for a Pattern with an index outside the word and
\* nothing disallowed or required: an earlier constraint was not obeyed.
C16_FalseByIterationOrder ==
    /\ ret.tag = "matches_call"
    /\ IndexOutOfBounds
    /\ knowledge.disallowed = {}
    /\ knowledge.must_contain = <<>>
    /\ ret.value = Returned(FALSE)

-----------------------------------------------------------------------------
(* A game played by hand: Game::make_guess called with any allowed guess,  *)
(* also past the end of the game (make_guess itself tests nothing).        *)

\* The guess lists of the games played by hand: the lists of up to two
\* words, the three game words in order, a list that repeats a word, and
\* a list whose words give Yellow tiles against the secrets.
PlayLists ==
    {gl \in GameLists : Len(gl.words) \in 1..2}
        \cup {Collection(<<<<"a", "a", "a">>, <<"b", "a", "b">>,
                           <<"c", "a", "c">>>>, <<1, 2, 3>>),
              Collection(<<<<"c", "a", "c">>, <<"a", "a", "a">>,
                           <<"c", "a", "c">>>>, <<1, 2, 3>>),
              Collection(<<<<"a", "a", "b">>, <<"a", "b", "a">>,
                           <<"b", "a", "a">>>>, <<1, 2, 3>>)}

\* Game::init, then choose_word or choose_random_word.
InitPlay ==
    /\ word \in GameWords \cup {AnswerOnlyWord}
    /\ guess = NoGuess
    /\ guesslist \in PlayLists
    /\ knowledge = init(guesslist).knowledge
    /\ prior = init(guesslist).knowledge
    /\ extant = init(guesslist).extant
    /\ rounds = 0
    /\ ret = NoRet
    /\ guesses = <<>>
    /\ pairs = <<>>

\* game.make_guess(word_slice[selection]), up to one guess past the limit.
PlayGuess ==
    /\ Len(guesses) <= ALLOWED_GUESSES_PER_GAME
    /\ \E k \in 1..Len(guesslist.words) : make_guess(guesslist.words[k])
    /\ UNCHANGED <<ret, pairs>>

NextPlay == PlayGuess

SpecPlay == InitPlay /\ [][NextPlay]_vars

\* Every tile of the outcome vector o is Green.
AllGreen(o) == \A i \in 1..Len(o) : o[i] = Green

\* C21: once a guess is made, current_state is GuesserVictory iff the tiles
\* of the most recent guess are all Green (on the sixth guess too),
\* otherwise GuesserDefeat iff at least six guesses are made, otherwise
\* InProgress: it is decided by the last guess and the number of guesses.
C21_StateFromLastGuessAndCount ==
    (word # <<>> /\ Len(guesses) >= 1) =>
        /\ guess = guesses[Len(guesses)]
        /\ current_state(word, guesses) =
                IF AllGreen(guess.outcome) THEN GuesserVictory
                ELSE IF Len(guesses) >= ALLOWED_GUESSES_PER_GAME
                     THEN GuesserDefeat
                     ELSE InProgress
        /\ LET others == [i \in 1..Len(guesses) |->
                            IF i = Len(guesses) THEN guess ELSE NoGuess]
           IN  current_state(word, others) = current_state(word, guesses)

\* The sixth guess is the secret, after five that were not: a victory.
C21_Witness ==
    /\ Len(guesses) = ALLOWED_GUESSES_PER_GAME
    /\ \A i \in 1..(Len(guesses) - 1) : ~AllGreen(guesses[i].outcome)
    /\ AllGreen(guess.outcome)
    /\ current_state(word, guesses) = GuesserVictory

\* A seventh guess that is not the secret, after a sixth that was: defeat.
C21_DefeatAfterVictory ==
    /\ Len(guesses) > ALLOWED_GUESSES_PER_GAME
    /\ AllGreen(guesses[ALLOWED_GUESSES_PER_GAME].outcome)
    /\ current_state(word, guesses) = GuesserDefeat

\* C22: after any sequence of make_guess calls against one secret the
\* extant collection, filtered step by step, is the guess list filtered by
\* the current knowledge, words and scores in the same order.
C22_ExtantIsFilteredGuessList ==
    extant = filter_pattern(guesslist, knowledge)

\* Two guesses in a row each dropped a word, and a word is left.
C22_Witness ==
    /\ Len(guesses) = 2
    /\ Len(extant.words) >= 1
    /\ Len(extant.words) < Len(filter_pattern(guesslist, prior).words)
    /\ Len(filter_pattern(guesslist, prior).words) < Len(guesslist.words)

-----------------------------------------------------------------------------
(* bitmask.rs and pattern.rs: letter sets as u64 bitmasks, and the         *)
(* Pattern::ingest that works on them.                                     *)

\* The ASCII letters in code order, lowercase and uppercase.
LowercaseLetters ==
    <<"a", "b", "c", "d", "e", "f", "g", "h", "i", "j", "k", "l", "m", "n",
      "o", "p", "q", "r", "s", "t", "u", "v", "w", "x", "y", "z">>
UppercaseLetters ==
    <<"A", "B", "C", "D", "E", "F", "G", "H", "I", "J", "K", "L", "M", "N",
      "O", "P", "Q", "R", "S", "T", "U", "V", "W", "X", "Y", "Z">>

\* char::to_ascii_lowercase
to_ascii_lowercase(ch) ==
    IF \E i \in 1..Len(UppercaseLetters) : UppercaseLetters[i] = ch
    THEN LowercaseLetters[CHOOSE i \in 1..Len(UppercaseLetters) :
                                UppercaseLetters[i] = ch]
    ELSE ch

\* A bitwise exclusive or, in place of the or.
RECURSIVE BitOr_toggles(_, _)
BitOr_toggles(a, b) ==
    IF a = 0 THEN b
    ELSE IF b = 0 THEN a
    ELSE (IF a % 2 = b % 2 THEN 0 ELSE 1)
            + 2 * BitOr_toggles(a \div 2, b \div 2)

\* a | b on u64
RECURSIVE BitOr(_, _)
BitOr(a, b) ==
    IF a = 0 THEN b
    ELSE IF b = 0 THEN a
    ELSE (IF a % 2 = 1 \/ b % 2 = 1 THEN 1 ELSE 0)
            + 2 * BitOr(a \div 2, b \div 2)

\* a & b on u64
RECURSIVE BitAnd(_, _)
BitAnd(a, b) ==
    IF a = 0 \/ b = 0 THEN 0
    ELSE (IF a % 2 = 1 /\ b % 2 = 1 THEN 1 ELSE 0)
            + 2 * BitAnd(a \div 2, b \div 2)

\* LetterBitmask::char_bitmask:
\* 1_u64 << (ch.to_ascii_lowercase() as u8 - 'a' as u8), for an ASCII letter.
char_bitmask(ch) ==
    LET code == CHOOSE i \in 1..Len(LowercaseLetters) :
                    LowercaseLetters[i] = to_ascii_lowercase(ch)
    IN  2 ^ (code - 1)

\* LetterBitmask::compute_bitmask, over the letters of word from idx on.
RECURSIVE ComputeLoop(_, _, _)
ComputeLoop(word_, idx, output) ==
    IF idx > Len(word_) THEN output
    ELSE With(BitOr(output, char_bitmask(word_[idx])),
              LAMBDA next : ComputeLoop(word_, idx + 1, next))

compute_bitmask(word_) == ComputeLoop(word_, 1, 0)

\* Vec<char>::to_letter_bitmask
to_letter_bitmask(self) == compute_bitmask(self)

\* pattern.rs, PlaceConstraint::IsNotChars(LetterBitmask)
IsNotCharsMask(mask) == [tag |-> "IsNotChars", ch |-> "", chars |-> mask]

\* pattern.rs, the Gray | Yellow arm's update of the constraint at idx,
\* taken when disallowed & mask == 0.
ForbidMask(constraints, idx, mask) ==
    IF idx \in DOMAIN constraints
    THEN IF constraints[idx].tag = "IsChar" THEN constraints
         ELSE MapPut(constraints, idx,
                     IsNotCharsMask(BitOr(constraints[idx].chars, mask)))
    ELSE MapPut(constraints, idx, IsNotCharsMask(mask))

\* pattern.rs, one turn of ingest's loop for the 0-based position idx.
BitmaskTile(self, g, idx, st) ==
    LET ch == g.guess[idx + 1]
        outcome == g.outcome[idx + 1]
        mask == char_bitmask(ch)
    IN  IF outcome = Green
        THEN [constraints |-> MapPut(st.constraints, idx, IsChar(ch)),
              count_map   |-> CountUp(st.count_map, ch),
              to_disallow |-> st.to_disallow]
        ELSE [constraints |-> IF BitAnd(self.disallowed, mask) = 0
                              THEN ForbidMask(st.constraints, idx, mask)
                              ELSE st.constraints,
              count_map   |-> IF outcome = Gray THEN st.count_map
                              ELSE CountUp(st.count_map, ch),
              to_disallow |-> IF outcome = Gray
                              THEN Append(st.to_disallow, ch)
                              ELSE st.to_disallow]

\* pattern.rs, the loop from position idx on.
RECURSIVE BitmaskLoop(_, _, _, _)
BitmaskLoop(self, g, idx, st) ==
    IF idx >= Len(g.guess) \/ idx >= Len(g.outcome) THEN st
    ELSE With(BitmaskTile(self, g, idx, st),
              LAMBDA next : BitmaskLoop(self, g, idx + 1, next))

\* pattern.rs, for ch in to_disallow, from the 1-based place i on:
\* disallowed |= mask unless ch is counted or its bit is set.
RECURSIVE DisallowMask(_, _, _, _)
DisallowMask(disallowed, to_disallow, count_map, i) ==
    IF i > Len(to_disallow) THEN disallowed
    ELSE With(IF /\ to_disallow[i] \notin DOMAIN count_map
                 /\ BitAnd(disallowed, char_bitmask(to_disallow[i])) = 0
              THEN BitOr(disallowed, char_bitmask(to_disallow[i]))
              ELSE disallowed,
              LAMBDA next : DisallowMask(next, to_disallow, count_map, i + 1))

\* pattern.rs, Pattern::ingest(&self, guess) -> Pattern
bitmask_ingest(self, g) ==
    With(BitmaskLoop(self, g, 0,
                     [constraints |-> self.constraints,
                      count_map   |-> <<>>,
                      to_disallow |-> <<>>]),
         LAMBDA st :
            Pattern(DisallowMask(self.disallowed, st.to_disallow,
                                 st.count_map, 1),
                    RaiseMinimums(self.must_contain, st.count_map),
                    st.constraints))

\* pattern.rs, Pattern::default()
DefaultBitmaskPattern == Pattern(0, <<>>, <<>>)

\* pattern.rs, tests::test_ingest, second case: the Pattern
ForcedBitmaskPattern ==
    Pattern(compute_bitmask(<<"a", "b", "c">>),
            [ch \in {"e"} |-> 1],
            [idx \in 0..2 |-> IF idx = 1 THEN IsChar("e") ELSE IsChar("d")])

-----------------------------------------------------------------------------
(* The two ingests side by side: knowledge is the set-based Pattern, ret   *)
(* holds the bitmask-based one, and both ingest the same guesses.          *)

\* The guesses both ingest: two guessed words with every vector of tiles,
\* and the guesses of the tests.
BothGuesses ==
    {g \in IngestGuesses :
        g.guess \in {<<"a", "a", "b">>, <<"a", "b", "a">>}}
        \cup {Tares, Dedefe}

InitBoth ==
    /\ word = <<>>
    /\ guess = NoGuess
    /\ \E start \in {<<DefaultPattern, DefaultBitmaskPattern>>,
                     <<ForcedPattern, ForcedBitmaskPattern>>} :
          /\ knowledge = start[1]
          /\ prior = start[1]
          /\ ret = [tag |-> "bitmask", value |-> start[2]]
    /\ guesslist = EmptyList
    /\ extant = EmptyList
    /\ rounds = 0
    /\ guesses = <<>>
    /\ pairs = <<>>

\* pattern.ingest(&guess) on both Patterns.
IngestBoth ==
    /\ rounds < MaxIngests
    /\ \E g \in BothGuesses :
        /\ guess' = g
        /\ prior' = knowledge
        /\ knowledge' = ingest(knowledge, g)
        /\ ret' = [tag |-> "bitmask", value |-> bitmask_ingest(ret.value, g)]
    /\ rounds' = rounds + 1
    /\ UNCHANGED <<word, guesslist, extant, guesses, pairs>>

NextBoth == IngestBoth

SpecBoth == InitBoth /\ [][NextBoth]_vars

\* The letters whose bit is set in a mask.
LettersIn(mask) ==
    {LowercaseLetters[i] : i \in {j \in 1..Len(LowercaseLetters) :
                                    (mask \div (2 ^ (j - 1))) % 2 = 1}}

\* The bitmask-based Pattern B says what the set-based Pattern K says.
Corresponds(K, B) ==
    /\ LettersIn(B.disallowed) = K.disallowed
    /\ B.disallowed < 2 ^ Len(LowercaseLetters)
    /\ B.must_contain = K.must_contain
    /\ DOMAIN B.constraints = DOMAIN K.constraints
    /\ \A idx \in DOMAIN K.constraints :
          /\ B.constraints[idx].tag = K.constraints[idx].tag
          /\ IF K.constraints[idx].tag = "IsChar"
             THEN B.constraints[idx].ch = K.constraints[idx].ch
             ELSE /\ LettersIn(B.constraints[idx].chars)
                        = LettersOf(K.constraints[idx].chars)
                  /\ B.constraints[idx].chars < 2 ^ Len(LowercaseLetters)

\* C24: from corresponding Patterns and through the same guesses over the
\* lowercase letters, the bitmask-based ingest and the set-based ingest
\* give the same disallowed letters, the same must_contain and, at every
\* position, the same kind of constraint with the same forced letter or
\* the same forbidden letters.
C24_IngestsCorrespond == Corresponds(knowledge, ret.value)

\* A second guess put a letter at a position that already forbade it and
\* forbade another one at a position with a forbidden letter.
C24_Witness ==
    /\ rounds = 2
    /\ \E idx \in DOMAIN prior.constraints \cap DOMAIN knowledge.constraints :
          /\ prior.constraints[idx].tag = "IsNotChars"
          /\ knowledge.constraints[idx] = prior.constraints[idx]
          /\ guess.guess[idx + 1] \in LettersOf(prior.constraints[idx].chars)
          /\ guess.outcome[idx + 1] # Green
          /\ guess.guess[idx + 1] \notin prior.disallowed
    /\ \E idx \in DOMAIN prior.constraints \cap DOMAIN knowledge.constraints :
          /\ prior.constraints[idx].tag = "IsNotChars"
          /\ knowledge.constraints[idx].tag = "IsNotChars"
          /\ Len(knowledge.constraints[idx].chars)
                > Len(prior.constraints[idx].chars)
    /\ knowledge.disallowed # {}

====
